---- MODULE Spec2Model ----
(***************************************************************************)
(* A model of ren-table.js: the RenTableElement update queue and its       *)
(* deferred render pass, the body cells' deferred renders, the bulk        *)
(* import/export operations (from, clear, to_array) and the observation of *)
(* the header section.                                                     *)
(***************************************************************************)
EXTENDS Integers, Sequences, FiniteSets, TLC

VARIABLES
    update_regions,     \* RenTableElement.update_regions: the update queue
    update_handle,      \* RenTableElement.update_handle: NULL or a timer id
    timers,             \* the host's queue of zero-delay timeouts, oldest first
    td_update_handle,   \* the body cells whose update_handle is not null
    tBodies,            \* table.tBodies: sequence of row-groups, each a sequence of rows
    tHead,              \* table.tHead: NULL or the header section
    connected,          \* connectedCallback has run: the observers exist
    observed_thead,     \* RenTableElement.observed_thead: NULL or a header section id
    thead_observer,     \* the node thead_observer observes: NULL or a header section id
    children_records,   \* mutation records queued for children_observer
    exported,           \* what the last to_array() call returned
    h_calls,            \* history: update() calls since the last pass started
    h_pass,             \* history: what the last render pass saw and did
    h_from,             \* history: the last from() call
    h_clear,            \* history: the last clear() call
    h_obs,              \* history: the last delivery to on_children_changed
    observed_thead_tr,  \* RenTableElement.observed_thead_tr: NULL or a header row id
    thead_tr_observer,  \* the node thead_tr_observer observes: NULL or a header row id
    thead_records,      \* mutation records queued for thead_observer
    tr_records,         \* mutation records queued for thead_tr_observer, oldest first
    renderers,          \* the own keys of RenTableElement.renderers
    fetches,            \* the fetches on_src_changed awaits, in the order issued
    h_row,              \* history: the header cell changes since the last delivery
    h_type,             \* history: the last change of a header cell's type
    h_cell,             \* history: the writes to and renders of one body cell
    h_render,           \* history: the last run of RenCellElement._update
    h_src               \* history: the last change of the src attribute

schedVars == <<update_regions, update_handle, timers, td_update_handle, h_calls, h_pass>>
domVars == <<tBodies, tHead>>
obsVars == <<connected, observed_thead, thead_observer, children_records, h_obs>>
dataVars == <<exported, h_from, h_clear>>
rowVars == <<observed_thead_tr, thead_tr_observer, thead_records, tr_records, h_row>>
cellVars == <<renderers, h_type, h_cell, h_render>>
srcVars == <<fetches, h_src>>
vars == <<schedVars, domVars, obsVars, dataVars, rowVars, cellVars, srcVars>>

----------------------------------------------------------------------------
(* Bounds of the model.                                                    *)

\* update() is not called while the queue already holds MaxQueue regions
MaxQueue == 2
\* the largest number of body rows of a row-group in the initial table
MaxBodyRows == 2
\* the width of the wide rows of the initial table: a column index of two digits
WideRow == 11
\* the largest number of rows of a dataset passed to from()
MaxInputRows == 2
\* a script adds no row-group to a table that has MaxBodies of them
MaxBodies == 2
\* the number of distinct header sections scripts insert
MaxTheads == 2
\* from() is not called while more than MaxPending timeouts wait
MaxPending == 0

(* Number.POSITIVE_INFINITY, the default row_end and column_end: larger    *)
(* than every row and column index of the model.                           *)
POSITIVE_INFINITY == 1000

NULL == "null"
TimerId == "timer"

----------------------------------------------------------------------------
(* JavaScript values and the conversions the code applies to them.  A      *)
(* string is a sequence of characters; a number is the ratio n/d of two    *)
(* integers (d = 0 and n = 0: NaN); a boolean keeps its truth in n.        *)

Undefined == [k |-> "undefined", s |-> <<>>, n |-> 0, d |-> 1]
Null == [k |-> "null", s |-> <<>>, n |-> 0, d |-> 1]
Str(str) == [k |-> "string", s |-> str, n |-> 0, d |-> 1]
Ratio(n, d) == [k |-> "number", s |-> <<>>, n |-> n, d |-> d]
Num(n) == Ratio(n, 1)
NaN == Ratio(0, 0)
Bool(b) == [k |-> "boolean", s |-> <<>>, n |-> IF b THEN 1 ELSE 0, d |-> 1]

\* an attribute of an element: absent (getAttribute gives null) or a string
NoAttr == [has |-> FALSE, s |-> <<>>]
Attr(str) == [has |-> TRUE, s |-> str]

DigitChars == <<"0", "1", "2", "3", "4", "5", "6", "7", "8", "9">>

RECURSIVE NumToStr(_)
\* String(n) for an integer n >= 0
NumToStr(n) ==
    IF n < 10 THEN <<DigitChars[n + 1]>>
    ELSE NumToStr(n \div 10) \o <<DigitChars[(n % 10) + 1]>>

\* String(v)
JSString(v) ==
    CASE v.k = "undefined" -> <<"u", "n", "d", "e", "f", "i", "n", "e", "d">>
      [] v.k = "null" -> <<"n", "u", "l", "l">>
      [] v.k = "string" -> v.s
      [] v.k = "boolean" -> IF v.n = 1 THEN <<"t", "r", "u", "e">>
                            ELSE <<"f", "a", "l", "s", "e">>
      [] v.k = "number" -> IF v.d = 1 /\ v.n >= 0 THEN NumToStr(v.n)
                           ELSE <<"N", "a", "N">>

DigitValue(ch) == (CHOOSE i \in 1 .. 10 : DigitChars[i] = ch) - 1

RECURSIVE ParseDigits(_, _)
ParseDigits(str, acc) ==
    IF str = <<>> THEN acc
    ELSE ParseDigits(Tail(str), 10 * acc + DigitValue(Head(str)))

\* Number(str) of a string: "" is 0, a digit string its value, else NaN
StrToNumber(str) ==
    IF \A i \in DOMAIN str : \E j \in 1 .. 10 : DigitChars[j] = str[i]
    THEN Num(ParseDigits(str, 0))
    ELSE NaN

\* Number(a) of an attribute read with getAttribute: Number(null) is 0
AttrToNumber(a) == IF a.has THEN StrToNumber(a.s) ELSE Num(0)

\* the truthiness of a value
ToBoolean(v) ==
    CASE v.k = "undefined" -> FALSE
      [] v.k = "null" -> FALSE
      [] v.k = "string" -> v.s # <<>>
      [] v.k = "boolean" -> v.n = 1
      [] v.k = "number" -> v.n # 0

\* x / y of two numbers
Divide(x, y) ==
    IF x = NaN \/ y = NaN THEN NaN ELSE Ratio(x.n * y.d, x.d * y.n)

\* v ?? w
Coalesce(v, w) == IF v.k \in {"undefined", "null"} THEN w ELSE v

----------------------------------------------------------------------------
(* The table: its header section and its body.  A header section has an id *)
(* (0: none) and a header row (id 0: none) of header cells; a body row is  *)
(* a record with its cells and, as history, the number of the input row of *)
(* the last from() call that created it (0: it was there before the call). *)

NoTr == [id |-> 0, cells |-> <<>>]
NoThead == [id |-> 0, tr |-> NoTr]
Th(type, name, max) == [type |-> type, name |-> name, max |-> max]
Thead(id, tr) == [id |-> id, tr |-> tr]

\* a body cell: its value and max attributes and its textContent
Cell(value) == [value |-> value, max |-> NoAttr, text |-> <<>>]
Row(cells, origin) == [cells |-> cells, origin |-> origin]

RECURSIVE Flatten(_)
\* rows.flatMap(itm => Array.from(itm)): the rows of all row-groups in order
Flatten(groups) ==
    IF groups = <<>> THEN <<>> ELSE Head(groups) \o Flatten(Tail(groups))

\* the flattened row sequence the render pass and to_array() walk
Rows(bodies) == Flatten(bodies)

\* the body cells of the table, as <<flattened row index, column index>>
Cells(bodies) ==
    UNION { { <<r - 1, c - 1>> : c \in 1 .. Len(Rows(bodies)[r].cells) } :
            r \in 1 .. Len(Rows(bodies)) }

\* the number of rows in the row-groups before row-group b
RowsBefore(bodies, b) == Len(Flatten(SubSeq(bodies, 1, b - 1)))

\* the body with the cell at flattened row index row, column col replaced
SetCell(bodies, row, col, td) ==
    [b \in 1 .. Len(bodies) |->
        [r \in 1 .. Len(bodies[b]) |->
            IF RowsBefore(bodies, b) + r - 1 = row
            THEN [bodies[b][r] EXCEPT !.cells[col + 1] = td]
            ELSE bodies[b][r]]]

TypeError == "#TypeError"

\* RenHeaderElement.type: getAttribute('type') ?? 'text'
ThType(th) == IF th.type = NULL THEN "text" ELSE th.type

\* RenCellElement.type of the cell at column idx: this.header.type ?? 'text',
\* with header = table.header(idx) = tHead.querySelector('tr').children[idx];
\* it throws when there is no header section, no header row or no such cell
CellType(head, idx) ==
    IF head.id = 0 \/ head.tr.id = 0 \/ idx >= Len(head.tr.cells)
    THEN TypeError
    ELSE ThType(head.tr.cells[idx + 1])

----------------------------------------------------------------------------
(* The renderers and their registry.                                       *)

\* Number(td.getAttribute('max') ?? td.header?.getAttribute('max') ?? 100)
MaxOf(cell, th) ==
    IF cell.max.has THEN StrToNumber(cell.max.s)
    ELSE IF th.max.has THEN StrToNumber(th.max.s)
    ELSE Num(100)

\* the keys RenTableElement.renderers is created with
BuiltinRenderers == {"text", "check", "progress", "img"}

\* property names every object literal inherits from Object.prototype:
\* toString called without a receiver returns a string, valueOf called
\* without a receiver throws a TypeError
ObjectPrototype == {"toString", "valueOf"}

\* td.textContent = td.value: null shows as the empty string
ValueText(cell) == IF cell.value.has THEN cell.value.s ELSE <<>>

\* the 'check' renderer: one mark for a non-empty value, another otherwise
CheckText(cell) ==
    IF cell.value.has /\ cell.value.s # <<>> THEN <<"check mark">> ELSE <<"cross mark">>

\* 100 * x of a number
Times100(x) == Ratio(100 * x.n, x.d)

\* String(Math.round(x)) for a number x >= 0
RoundText(x) ==
    IF x = NaN THEN <<"N", "a", "N">>
    ELSE IF x.d = 0 THEN <<"I", "n", "f", "i", "n", "i", "t", "y">>
    ELSE NumToStr((2 * x.n + x.d) \div (2 * x.d))

\* the 'progress' renderer: `${Math.round(100 * td.value / max)}%`
ProgressText(cell, th) ==
    RoundText(Divide(Times100(AttrToNumber(cell.value)), MaxOf(cell, th))) \o <<"%">>

\* the 'img' renderer: the cell holds an img element whose src is the value
ImgText(cell) == <<"<img>">> \o ValueText(cell)

\* the renderer lookup and call of RenCellElement._update for a resolved
\* type: what happened, the textContent left and whether a warning was logged
Render(registry, type, cell, th) ==
    IF type \in registry
    THEN [outcome |-> "rendered", warned |-> FALSE,
          text |-> CASE type = "text" -> ValueText(cell)
                     [] type = "check" -> CheckText(cell)
                     [] type = "progress" -> ProgressText(cell, th)
                     [] type = "img" -> ImgText(cell)]
    ELSE IF type = "valueOf"
    THEN [outcome |-> "threw", warned |-> FALSE, text |-> cell.text]
    ELSE IF type \in ObjectPrototype
    THEN [outcome |-> "no effect", warned |-> FALSE, text |-> cell.text]
    ELSE [outcome |-> "fallback", warned |-> TRUE, text |-> ValueText(cell)]

\* RenCellElement._update of the cell td at column idx: the type is resolved
\* (which may throw), then the renderer is looked up and called
RenderCell(registry, head, td, idx) ==
    IF CellType(head, idx) = TypeError
    THEN [outcome |-> "threw", warned |-> FALSE, text |-> td.text]
    ELSE Render(registry, CellType(head, idx), td, head.tr.cells[idx + 1])

----------------------------------------------------------------------------
(* update(): the composite key and the sorted insertion.                   *)

RECURSIVE Digits(_)
\* the length of String(n) for an integer n >= 0
Digits(n) == IF n < 10 THEN 1 ELSE 1 + Digits(n \div 10)

RECURSIVE Pow10(_)
Pow10(d) == IF d = 0 THEN 1 ELSE 10 * Pow10(d - 1)

\* Number(String(row_start) + String(column_start))
Weight(row_start, column_start) ==
    row_start * Pow10(Digits(column_start)) + column_start

Entry(row_start, column_start, row_end, column_end) ==
    [row_start |-> row_start, column_start |-> column_start,
     row_end |-> row_end, column_end |-> column_end]

\* the for loop of update(): splice before the first heavier region, else push
InsertRegion(queue, entry) ==
    LET w == Weight(entry.row_start, entry.column_start)
        heavier == { i \in 1 .. Len(queue) :
                       Weight(queue[i].row_start, queue[i].column_start) > w }
    IN  IF heavier = {}
        THEN Append(queue, entry)
        ELSE LET idx == CHOOSE i \in heavier : \A j \in heavier : i <= j
             IN  SubSeq(queue, 1, idx - 1) \o <<entry>> \o SubSeq(queue, idx, Len(queue))

TableTimer == [target |-> "table", row |-> 0, col |-> 0]
CellTimer(r, c) == [target |-> "td", row |-> r, col |-> c]

\* a mutant of ScheduleTable: setTimeout on every update() call
ScheduleTableAlways(handle, tm) == Append(tm, TableTimer)

\* this.update_handle ??= setTimeout(this._update.bind(this), 0)
ScheduleTable(handle, tm) ==
    IF handle = NULL THEN Append(tm, TableTimer) ELSE tm

\* RenTableElement.update(row_start, column_start, row_end, column_end)
update(row_start, column_start, row_end, column_end) ==
    /\ update_regions' =
         InsertRegion(update_regions, Entry(row_start, column_start, row_end, column_end))
    /\ timers' = ScheduleTable(update_handle, timers)
    /\ update_handle' = TimerId
    /\ h_calls' = h_calls + 1
    /\ h_pass' = [ran |-> FALSE, regions |-> <<>>, requests |-> <<>>, rendered |-> <<>>]

----------------------------------------------------------------------------
(* _update(): the render pass.                                             *)

RECURSIVE DropPassed(_, _)
\* the while loop "remove passed regions": shift while the head is exhausted
DropPassed(queue, row_idx) ==
    IF Len(queue) > 0 /\ queue[1].row_end <= row_idx
    THEN DropPassed(Tail(queue), row_idx)
    ELSE queue

RECURSIVE RegionLoop(_, _, _, _)
\* the loop over the regions for one cell: the number of cell.update() calls
RegionLoop(queue, k, row_idx, cell_idx) ==
    IF k > Len(queue) THEN 0
    ELSE IF queue[k].row_start > row_idx THEN 0
    ELSE IF queue[k].column_start <= cell_idx /\ cell_idx < queue[k].column_end
         THEN 1
         ELSE RegionLoop(queue, k + 1, row_idx, cell_idx)

RECURSIVE CellLoop(_, _, _, _)
\* the loop over the cells of one row: the cells whose update() is called
CellLoop(queue, row_idx, cell_idx, width) ==
    IF cell_idx >= width THEN <<>>
    ELSE (IF RegionLoop(queue, 1, row_idx, cell_idx) = 1
          THEN <<(<<row_idx, cell_idx>>)>> ELSE <<>>)
         \o CellLoop(queue, row_idx, cell_idx + 1, width)

RECURSIVE RowLoop(_, _, _, _)
\* the loop over the rows: the queue left and the update() calls made
RowLoop(queue, rows, row_idx, requests) ==
    IF row_idx >= Len(rows) THEN [queue |-> queue, requests |-> requests]
    ELSE LET q == DropPassed(queue, row_idx) IN
         IF Len(q) = 0 THEN [queue |-> q, requests |-> requests]
         ELSE IF q[1].row_start > row_idx
              THEN RowLoop(q, rows, row_idx + 1, requests)
              ELSE RowLoop(q, rows, row_idx + 1,
                     requests \o CellLoop(q, row_idx, 0, Len(rows[row_idx + 1].cells)))

\* a mutant of ClearRegions: the queue is left as the row loop left it
ClearRegionsKeep(queue) == queue

\* this.update_regions = [] at the end of the pass
ClearRegions(queue) == <<>>

\* a mutant of ResetHandle: the pass leaves the handle as it was
ResetHandleKeep(handle) == handle

\* this.update_handle = null at the start of the pass
ResetHandle(handle) == NULL

RECURSIVE RequestCellsAlways(_, _, _)
\* a mutant of RequestCells: setTimeout on every RenCellElement.update() call
RequestCellsAlways(requests, handles, tm) ==
    IF requests = <<>> THEN [handles |-> handles, timers |-> tm]
    ELSE RequestCellsAlways(Tail(requests), handles \cup {Head(requests)},
                            Append(tm, CellTimer(Head(requests)[1], Head(requests)[2])))

RECURSIVE RequestCells(_, _, _)
\* RenCellElement.update() on each requested cell in turn:
\* this.update_handle ??= setTimeout(this._update.bind(this))
RequestCells(requests, handles, tm) ==
    IF requests = <<>> THEN [handles |-> handles, timers |-> tm]
    ELSE LET cell == Head(requests) IN
         IF cell \in handles
         THEN RequestCells(Tail(requests), handles, tm)
         ELSE RequestCells(Tail(requests), handles \cup {cell},
                           Append(tm, CellTimer(cell[1], cell[2])))

\* the host delivers the queued mutation records before it runs a timeout
NoRecords == ~children_records /\ ~thead_records /\ tr_records = <<>>

\* RenTableElement._update(), run by the oldest timeout
TableUpdate ==
    /\ timers # <<>>
    /\ Head(timers).target = "table"
    /\ NoRecords
    /\ LET loop == RowLoop(update_regions, Rows(tBodies), 0, <<>>)
           req == RequestCells(loop.requests, td_update_handle, Tail(timers))
       IN  /\ update_handle' = ResetHandle(update_handle)
           /\ update_regions' = ClearRegions(loop.queue)
           /\ td_update_handle' = req.handles
           /\ timers' = req.timers
           /\ h_pass' = [ran |-> TRUE, regions |-> update_regions,
                         requests |-> loop.requests, rendered |-> <<>>]
           /\ h_cell' = IF /\ h_cell.cell \notin td_update_handle
                           /\ \E i \in DOMAIN loop.requests : loop.requests[i] = h_cell.cell
                        THEN [h_cell EXCEPT !.writes = 0, !.renders = 0]
                        ELSE h_cell
    /\ h_calls' = 0
    /\ UNCHANGED <<domVars, obsVars, dataVars, rowVars, srcVars>>
    /\ UNCHANGED <<renderers, h_type, h_render>>

\* RenCellElement._update(), run by the oldest timeout: the handle is reset,
\* the type is resolved (which may throw) and the cell is rendered
CellUpdate ==
    /\ timers # <<>>
    /\ Head(timers).target = "td"
    /\ NoRecords
    /\ LET cell == <<Head(timers).row, Head(timers).col>>
           td == Rows(tBodies)[cell[1] + 1].cells[cell[2] + 1]
           res == RenderCell(renderers, tHead, td, cell[2])
       IN
       /\ td_update_handle' = td_update_handle \ {cell}
       /\ tBodies' = SetCell(tBodies, cell[1], cell[2], [td EXCEPT !.text = res.text])
       /\ h_pass' = IF h_pass.ran /\ res.outcome \in {"rendered", "fallback"}
                    THEN [h_pass EXCEPT !.rendered = Append(@, cell)]
                    ELSE h_pass
       /\ h_cell' = IF cell = h_cell.cell
                    THEN [h_cell EXCEPT !.renders = @ + 1,
                                        !.maxed = @ /\ res.outcome = "threw"]
                    ELSE h_cell
       /\ h_render' = IF cell = h_cell.cell
                      THEN [ran |-> TRUE, outcome |-> res.outcome, warned |-> res.warned,
                            registered |-> CellType(tHead, cell[2]) \in renderers,
                            plain |-> res.text = ValueText(td), used |-> td.value]
                      ELSE h_render
    /\ timers' = Tail(timers)
    /\ UNCHANGED <<update_regions, update_handle, h_calls>>
    /\ UNCHANGED <<tHead, obsVars, dataVars, rowVars, srcVars, renderers, h_type>>

\* RenCellElement._update() of a cell that clear() removed from the table:
\* the handle is reset and the type resolution throws
DetachedCellUpdate ==
    /\ timers # <<>>
    /\ Head(timers).target = "detached td"
    /\ NoRecords
    /\ timers' = Tail(timers)
    /\ UNCHANGED <<update_regions, update_handle, td_update_handle, h_calls, h_pass>>
    /\ UNCHANGED <<domVars, obsVars, dataVars, rowVars, cellVars, srcVars>>

----------------------------------------------------------------------------
(* The scheduler: update() calls by scripts and the two deferred handlers, *)
(* on a table whose header row has a header cell for every column.         *)

RowStarts == {0, 1, 2}
ColumnStarts == {0, 10}

\* the regions a script passes to update(): the defaults, one column, one row
Regions ==
    UNION { { Entry(rs, cs, POSITIVE_INFINITY, POSITIVE_INFINITY),
              Entry(rs, cs, POSITIVE_INFINITY, cs + 1),
              Entry(rs, cs, rs + 1, POSITIVE_INFINITY) } :
            rs \in RowStarts, cs \in ColumnStarts }

BlankRow(width) == Row([i \in 1 .. width |-> Cell(Attr(<<>>))], 0)

\* the row-groups of the initial table: none, rows of one cell, a row of
\* WideRow cells followed by rows of two cells, and two row-groups
SchedBodies ==
    { <<>>, << <<BlankRow(1)>>, <<BlankRow(WideRow)>> >> } \cup
    { <<[i \in 1 .. n |-> BlankRow(1)]>> : n \in 1 .. MaxBodyRows } \cup
    { <<[i \in 1 .. n |-> IF i = 1 THEN BlankRow(WideRow) ELSE BlankRow(2)]>> :
        n \in 1 .. MaxBodyRows }

SchedHead == Thead(1, [id |-> 1, cells |-> [i \in 1 .. WideRow |-> Th(NULL, NULL, NoAttr)]])

NoPass == [ran |-> FALSE, regions |-> <<>>, requests |-> <<>>, rendered |-> <<>>]
NoFrom == [called |-> FALSE, threw |-> FALSE, arr |-> <<>>]
NoClear == [called |-> FALSE, head |-> NoThead]
NoDelivery == [delivered |-> FALSE, seen |-> 0, now |-> 0, enqueued |-> 0, full |-> FALSE]
NotExported == [done |-> FALSE, threw |-> FALSE, rows |-> <<>>]
NoRowChange ==
    [changed |-> FALSE, first |-> 0, delivered |-> FALSE, start |-> 0, queued |-> FALSE]
NoTypeChange == [changed |-> FALSE, column |-> 0, queued |-> FALSE]
NoCell == <<-1, -1>>
NoTracking == [cell |-> NoCell, writes |-> 0, renders |-> 0, maxed |-> FALSE]
NoRender ==
    [ran |-> FALSE, outcome |-> "none", warned |-> FALSE, registered |-> FALSE,
     plain |-> FALSE, used |-> NoAttr]
NoSrc ==
    [set |-> FALSE, value |-> "", issued |-> 0, responded |-> FALSE, ok |-> FALSE,
     status |-> "none", kept |-> FALSE, error |-> "none"]

\* the state the constructor leaves: an empty queue and no handle
Constructed ==
    /\ update_regions = <<>>
    /\ update_handle = NULL
    /\ timers = <<>>
    /\ td_update_handle = {}
    /\ connected = FALSE
    /\ observed_thead = 0
    /\ thead_observer = 0
    /\ children_records = FALSE
    /\ exported = NotExported
    /\ h_calls = 0
    /\ h_pass = NoPass
    /\ h_from = NoFrom
    /\ h_clear = NoClear
    /\ h_obs = NoDelivery
    /\ observed_thead_tr = 0
    /\ thead_tr_observer = 0
    /\ thead_records = FALSE
    /\ tr_records = <<>>
    /\ renderers = BuiltinRenderers
    /\ fetches = <<>>
    /\ h_row = NoRowChange
    /\ h_type = NoTypeChange
    /\ h_render = NoRender
    /\ h_src = NoSrc

\* no cell has its writes and renders counted
Untracked == h_cell = NoTracking

SchedInit ==
    /\ Constructed
    /\ Untracked
    /\ tBodies \in SchedBodies
    /\ tHead = SchedHead

\* a script calls update()
Update ==
    /\ Len(update_regions) < MaxQueue
    /\ \E region \in Regions :
         update(region.row_start, region.column_start, region.row_end, region.column_end)
    /\ UNCHANGED <<td_update_handle, domVars, obsVars, dataVars, rowVars, cellVars, srcVars>>

SchedNext == Update \/ TableUpdate \/ CellUpdate

SpecSched == SchedInit /\ [][SchedNext]_vars

----------------------------------------------------------------------------
(* clear(), from() and to_array().                                         *)

RemoveAt(seq, i) == SubSeq(seq, 1, i - 1) \o SubSeq(seq, i + 1, Len(seq))

RECURSIVE ClearLoop(_, _)
\* for (let tbody of this.tBodies) tbody.remove(): tBodies is a live
\* collection, its iterator reads it at an index that advances after every
\* step; `kept` are the row-groups still in the table, idx the index
ClearLoop(kept, idx) ==
    IF idx >= Len(kept) THEN kept
    ELSE ClearLoop(RemoveAt(kept, idx + 1), idx + 1)

\* the positions (in the table before the call) of the row-groups clear() leaves
ClearKept(bodies) == ClearLoop([i \in 1 .. Len(bodies) |-> i], 0)

\* the row-groups clear() leaves in the table
ClearBodies(bodies) ==
    LET kept == ClearKept(bodies) IN [j \in 1 .. Len(kept) |-> bodies[kept[j]]]

\* the new flattened index of the row at flattened index r after clear(), or
\* -1 if its row-group was removed
MovedRow(bodies, r) ==
    LET b == CHOOSE i \in 1 .. Len(bodies) :
                 RowsBefore(bodies, i) <= r /\ r < RowsBefore(bodies, i) + Len(bodies[i])
        kept == ClearKept(bodies)
        js == { j \in 1 .. Len(kept) : kept[j] = b }
    IN  IF js = {} THEN -1
        ELSE LET j == CHOOSE i \in js : TRUE
             IN  RowsBefore(ClearBodies(bodies), j) + (r - RowsBefore(bodies, b))

\* the pending timeouts after clear(): those of removed cells stay queued
ClearTimers(bodies, tm) ==
    [i \in 1 .. Len(tm) |->
        IF tm[i].target # "td" THEN tm[i]
        ELSE IF MovedRow(bodies, tm[i].row) = -1
             THEN [target |-> "detached td", row |-> 0, col |-> 0]
             ELSE CellTimer(MovedRow(bodies, tm[i].row), tm[i].col)]

\* the handles of the cells still in the table after clear()
ClearHandles(bodies, handles) ==
    { <<MovedRow(bodies, cell[1]), cell[2]>> :
        cell \in { x \in handles : MovedRow(bodies, x[1]) # -1 } }

\* the importers registered: 'check' and 'progress'
HasImporter(type) == type \in {"check", "progress"}

\* RenTableElement.importers[type](v): a string
Import(type, v) ==
    IF type = "check"
    THEN (IF ToBoolean(v) THEN <<"1">> ELSE <<>>)
    ELSE JSString(Coalesce(v, Str(<<"0">>)))

\* td.value = importer ? importer(v) : v ?? '', stored by setAttribute
ImportedValue(type, v) ==
    IF HasImporter(type) THEN Attr(Import(type, v))
    ELSE Attr(JSString(Coalesce(v, Str(<<>>))))

\* this.column_types[idx], "undefined" beyond the header row
ColumnType(head, idx) ==
    IF idx < Len(head.tr.cells) THEN ThType(head.tr.cells[idx + 1]) ELSE "undefined"

\* row[k] of a keyed row
Lookup(row, key) ==
    IF \E i \in DOMAIN row.keys : row.keys[i] = key
    THEN row.vals[CHOOSE i \in DOMAIN row.keys : row.keys[i] = key]
    ELSE Undefined

\* the cells from() creates for one input row
ImportRow(head, row) ==
    IF row.array
    THEN [i \in 1 .. Len(row.items) |->
            Cell(ImportedValue(ColumnType(head, i - 1), row.items[i]))]
    ELSE [i \in 1 .. Len(head.tr.cells) |->
            IF head.tr.cells[i].name # NULL
            THEN Cell(ImportedValue(ColumnType(head, i - 1),
                                    Lookup(row, head.tr.cells[i].name)))
            ELSE Cell(NoAttr)]

\* the row-group from() creates: one row per input row
ImportBody(head, arr) ==
    [i \in 1 .. Len(arr) |-> Row(ImportRow(head, arr[i]), i)]

RECURSIVE ValuedCells(_, _, _)
\* the cells of the rows, from flattened index base on, whose value attribute
\* is set (setting it runs attributeChangedCallback), in order of creation
ValuedCells(rows, base, i) ==
    IF i > Len(rows) THEN <<>>
    ELSE LET cs == rows[i].cells
             RECURSIVE Cols(_)
             Cols(c) == IF c > Len(cs) THEN <<>>
                        ELSE (IF cs[c].value.has
                              THEN <<(<<base + i - 1, c - 1>>)>> ELSE <<>>) \o Cols(c + 1)
         IN  Cols(1) \o ValuedCells(rows, base, i + 1)

\* the rows that were in the table lose the mark of the last from() call
Aged(bodies) ==
    [b \in 1 .. Len(bodies) |->
        [r \in 1 .. Len(bodies[b]) |-> [bodies[b][r] EXCEPT !.origin = 0]]]

\* the exporters registered: 'check' and 'progress'
HasExporter(type) == type \in {"check", "progress"}

\* RenTableElement.exporters[type](td)
Export(type, cell, th) ==
    IF type = "check"
    THEN Bool(cell.value.has /\ cell.value.s # <<>>)
    ELSE Divide(AttrToNumber(cell.value), MaxOf(cell, th))

\* cell.value: null or the value attribute
CellValue(cell) == IF cell.value.has THEN Str(cell.value.s) ELSE Null

\* the value to_array() pushes for the cell at column idx (its type resolves)
ExportCell(head, cell, idx) ==
    IF HasExporter(CellType(head, idx))
    THEN Export(CellType(head, idx), cell, head.tr.cells[idx + 1])
    ELSE CellValue(cell)

\* to_array(): it throws when the type of a cell does not resolve
ToArrayResult(bodies, head) ==
    LET rows == Rows(bodies) IN
    IF \E cell \in Cells(bodies) : CellType(head, cell[2]) = TypeError
    THEN [done |-> TRUE, threw |-> TRUE, rows |-> <<>>]
    ELSE [done |-> TRUE, threw |-> FALSE,
          rows |-> [r \in 1 .. Len(rows) |->
                      [c \in 1 .. Len(rows[r].cells) |->
                          ExportCell(head, rows[r].cells[c], c - 1)]]]

\* clear(): the row-groups the loop reaches are removed; the removal queues a
\* mutation record when the children observer exists
clear ==
    /\ tBodies' = ClearBodies(tBodies)
    /\ timers' = ClearTimers(tBodies, timers)
    /\ td_update_handle' = ClearHandles(tBodies, td_update_handle)
    /\ children_records' = (children_records \/ (connected /\ tBodies # <<>>))

\* a script calls clear()
Clear ==
    /\ clear
    /\ h_clear' = [called |-> TRUE, head |-> tHead]
    /\ h_from' = NoFrom
    /\ exported' = NotExported
    /\ UNCHANGED <<update_regions, update_handle, h_calls, h_pass, tHead>>
    /\ UNCHANGED <<connected, observed_thead, thead_observer, h_obs>>
    /\ UNCHANGED <<rowVars, cellVars, srcVars>>

\* from(arr): clear(), then column_names (which throws without a header row),
\* then createTBody() and one row of cells per input row; every cell whose
\* value is set asks for its own render
from(arr) ==
    LET left == Aged(ClearBodies(tBodies))
        tm == ClearTimers(tBodies, timers)
        handles == ClearHandles(tBodies, td_update_handle)
    IN  IF tHead.id = 0 \/ tHead.tr.id = 0
        THEN /\ tBodies' = left
             /\ timers' = tm
             /\ td_update_handle' = handles
             /\ children_records' = (children_records \/ (connected /\ tBodies # <<>>))
             /\ h_from' = [called |-> TRUE, threw |-> TRUE, arr |-> arr]
        ELSE LET body == ImportBody(tHead, arr)
                 req == RequestCells(ValuedCells(body, Len(Rows(left)), 1), handles, tm)
             IN  /\ tBodies' = Append(left, body)
                 /\ timers' = req.timers
                 /\ td_update_handle' = req.handles
                 /\ children_records' = (children_records \/ connected)
                 /\ h_from' = [called |-> TRUE, threw |-> FALSE, arr |-> arr]

----------------------------------------------------------------------------
(* The data operations: scripts add row-groups, call clear(), from() and   *)
(* to_array() on a table that is not connected to a document, and the      *)
(* renders the created cells ask for run.                                  *)

ArrayRow(items) == [array |-> TRUE, items |-> items, keys |-> <<>>, vals |-> <<>>]
KeyedRow(keys, vals) == [array |-> FALSE, items |-> <<>>, keys |-> keys, vals |-> vals]

\* the input rows: arrays of one or two values (strings, numbers, booleans,
\* null) and a keyed row
InputRows ==
    { ArrayRow(<<Str(<<"a">>), Num(30)>>),
      ArrayRow(<<Null, Null>>),
      ArrayRow(<<Num(30), Str(<<"a">>)>>),
      ArrayRow(<<Num(0)>>),
      ArrayRow(<<Bool(TRUE)>>),
      KeyedRow(<<"title">>, <<Str(<<"x">>)>>) }

\* the datasets passed to from(): up to MaxInputRows input rows
Datasets == UNION { [1 .. n -> InputRows] : n \in 0 .. MaxInputRows }

\* the header sections of the tables: none, one without a header row, a text
\* and a progress column, a single check column
DataHeads ==
    { NoThead,
      Thead(1, NoTr),
      Thead(1, [id |-> 1, cells |-> << Th(NULL, "title", NoAttr),
                                        Th("progress", NULL, Attr(<<"5", "0">>)) >>]),
      Thead(1, [id |-> 1, cells |-> << Th("check", "done", NoAttr) >>]) }

DataInit ==
    /\ Constructed
    /\ Untracked
    /\ tBodies = <<>>
    /\ tHead \in DataHeads

\* a script (or the markup) appends a row-group with one row of one cell
InsertTBody ==
    /\ Len(tBodies) < MaxBodies
    /\ tBodies' = Append(tBodies, << Row(<<Cell(NoAttr)>>, 0) >>)
    /\ children_records' = (children_records \/ connected)
    /\ h_from' = NoFrom
    /\ h_clear' = NoClear
    /\ exported' = NotExported
    /\ UNCHANGED <<schedVars, tHead, connected, observed_thead, thead_observer, h_obs>>
    /\ UNCHANGED <<rowVars, cellVars, srcVars>>

\* a script calls from()
From ==
    /\ Len(timers) <= MaxPending
    /\ \E arr \in Datasets : from(arr)
    /\ h_clear' = NoClear
    /\ exported' = NotExported
    /\ UNCHANGED <<update_regions, update_handle, h_calls, h_pass, tHead>>
    /\ UNCHANGED <<connected, observed_thead, thead_observer, h_obs>>
    /\ UNCHANGED <<rowVars, cellVars, srcVars>>

\* a script calls to_array()
ToArray ==
    /\ exported' = ToArrayResult(tBodies, tHead)
    /\ UNCHANGED <<schedVars, domVars, obsVars, h_from, h_clear>>
    /\ UNCHANGED <<rowVars, cellVars, srcVars>>

DataNext ==
    InsertTBody \/ Clear \/ From \/ ToArray \/ CellUpdate \/ DetachedCellUpdate

SpecData == DataInit /\ [][DataNext]_vars

----------------------------------------------------------------------------
(* The observation of the header section: scripts insert and remove the    *)
(* header section and row-groups of a connected table, the host delivers   *)
(* the mutation records to on_children_changed and runs the timeouts.      *)

\* this.observed_thead != new_thead
TheadChanged(observed, new_thead) == observed # new_thead

\* connectedCallback(): the observers are created, children_observer observes
\* the table's children, nothing is observed by the others yet
ConnectedCallback ==
    /\ ~connected
    /\ connected' = TRUE
    /\ observed_thead' = 0
    /\ thead_observer' = 0
    /\ children_records' = FALSE
    /\ observed_thead_tr' = 0
    /\ thead_tr_observer' = 0
    /\ thead_records' = FALSE
    /\ tr_records' = <<>>
    /\ h_obs' = [NoDelivery EXCEPT !.seen = tHead.id, !.now = tHead.id]
    /\ UNCHANGED <<schedVars, domVars, dataVars, h_row, cellVars, srcVars>>

\* on_children_changed(mutations), run by the host when records are queued
OnChildrenChanged ==
    /\ children_records
    /\ children_records' = FALSE
    /\ IF TheadChanged(observed_thead, tHead.id)
       THEN /\ observed_thead' = tHead.id
            /\ thead_observer' = tHead.id
            /\ thead_records' = FALSE
            /\ IF tHead.id # 0
               THEN update(0, 0, POSITIVE_INFINITY, POSITIVE_INFINITY)
               ELSE UNCHANGED <<update_regions, update_handle, timers, h_calls, h_pass>>
       ELSE UNCHANGED <<observed_thead, thead_observer, thead_records, update_regions,
                        update_handle, timers, h_calls, h_pass>>
    /\ h_obs' = [delivered |-> TRUE, seen |-> h_obs.now, now |-> tHead.id,
                 enqueued |-> Len(update_regions') - Len(update_regions),
                 full |-> \E i \in DOMAIN update_regions' :
                            update_regions'[i] =
                              Entry(0, 0, POSITIVE_INFINITY, POSITIVE_INFINITY)]
    /\ UNCHANGED <<td_update_handle, domVars, connected, dataVars>>
    /\ UNCHANGED <<observed_thead_tr, thead_tr_observer, tr_records, h_row, cellVars, srcVars>>

\* the header sections a script inserts: one header row of two text columns
ObsHeads ==
    { Thead(id, [id |-> id, cells |-> << Th(NULL, NULL, NoAttr), Th(NULL, NULL, NoAttr) >>]) :
        id \in 1 .. MaxTheads }

\* a script inserts a header section into a table that has none
InsertTHead ==
    /\ tHead.id = 0
    /\ Len(update_regions) < MaxQueue
    /\ \E head \in ObsHeads : tHead' = head
    /\ children_records' = (children_records \/ connected)
    /\ UNCHANGED <<schedVars, tBodies, connected, observed_thead, thead_observer, h_obs, dataVars>>
    /\ UNCHANGED <<rowVars, cellVars, srcVars>>

\* a script removes the header section
RemoveTHead ==
    /\ tHead.id # 0
    /\ tHead' = NoThead
    /\ children_records' = (children_records \/ connected)
    /\ UNCHANGED <<schedVars, tBodies, connected, observed_thead, thead_observer, h_obs, dataVars>>
    /\ UNCHANGED <<rowVars, cellVars, srcVars>>

ObsInit ==
    /\ Constructed
    /\ Untracked
    /\ tBodies = <<>>
    /\ tHead \in {NoThead} \cup ObsHeads

ObsNext ==
    \/ ConnectedCallback \/ InsertTHead \/ RemoveTHead \/ InsertTBody
    \/ OnChildrenChanged \/ TableUpdate \/ CellUpdate

SpecObs == ObsInit /\ [][ObsNext]_vars

----------------------------------------------------------------------------
(* The observation of the header row and of its cells: scripts change the  *)
(* header section, the header row and the header cells of a connected      *)
(* table; the host delivers the records to the three observers in the      *)
(* order the observers were created, before it runs a timeout.  The header *)
(* cells carry distinct names, which stand for the identity of the nodes.  *)

\* mutation.previousSibling of a record: no sibling, or a header cell
NoSibling == "#none"

\* children.indexOf(prev_sibling): -1 when it is not a child
IndexOf(children, name) ==
    IF \E i \in DOMAIN children : children[i].name = name
    THEN (CHOOSE i \in DOMAIN children : children[i].name = name) - 1
    ELSE -1

Min(a, b) == IF a <= b THEN a ELSE b

RECURSIVE FirstPrevSiblingIndex(_, _, _)
\* the loop of on_thead_tr_children_changed over the mutation records: the
\* smallest index of a previous sibling, -1 (and no further look) when a
\* record has no previous sibling
FirstPrevSiblingIndex(mutations, children, first) ==
    IF mutations = <<>> THEN first
    ELSE IF Head(mutations).prev = NoSibling THEN -1
    ELSE FirstPrevSiblingIndex(Tail(mutations), children,
                               Min(first, IndexOf(children, Head(mutations).prev)))

\* first_prev_sibling_index + 1, where Infinity + 1 is Infinity
FirstUpdateColumn(mutations, children) ==
    LET first == FirstPrevSiblingIndex(mutations, children, POSITIVE_INFINITY)
    IN  IF first = POSITIVE_INFINITY THEN POSITIVE_INFINITY ELSE first + 1

\* on_thead_children_changed(mutations): this.header_row throws when the
\* table has no header section
OnTheadChildrenChanged ==
    /\ thead_records
    /\ ~children_records
    /\ thead_records' = FALSE
    /\ IF tHead.id # 0 /\ tHead.tr.id # observed_thead_tr
       THEN /\ observed_thead_tr' = tHead.tr.id
            /\ thead_tr_observer' = tHead.tr.id
            /\ tr_records' = <<>>
            /\ update(0, 0, POSITIVE_INFINITY, POSITIVE_INFINITY)
       ELSE UNCHANGED <<observed_thead_tr, thead_tr_observer, tr_records,
                        update_regions, update_handle, timers, h_calls, h_pass>>
    /\ UNCHANGED <<td_update_handle, domVars, obsVars, dataVars, h_row, cellVars, srcVars>>

\* on_thead_tr_children_changed(mutations)
OnTheadTrChildrenChanged ==
    /\ tr_records # <<>>
    /\ ~children_records /\ ~thead_records
    /\ tr_records' = <<>>
    /\ LET column == FirstUpdateColumn(tr_records, tHead.tr.cells) IN
       /\ update(0, column, POSITIVE_INFINITY, POSITIVE_INFINITY)
       /\ h_row' = [h_row EXCEPT
                      !.changed = FALSE, !.delivered = TRUE, !.start = column,
                      !.queued = \E i \in DOMAIN update_regions' :
                                   update_regions'[i] =
                                     Entry(0, column, POSITIVE_INFINITY, POSITIVE_INFINITY)]
    /\ UNCHANGED <<td_update_handle, domVars, obsVars, dataVars>>
    /\ UNCHANGED <<observed_thead_tr, thead_tr_observer, thead_records, cellVars, srcVars>>

\* the most header cells a header row holds
MaxHeaderCells == 3
\* the most mutation records of the header row a script queues in one task
MaxRecords == 2

HeaderNames == <<"a", "b", "c", "d", "e">>

\* a header row of n text columns
HeaderRow(id, n) == [id |-> id, cells |-> [i \in 1 .. n |-> Th(NULL, HeaderNames[i], NoAttr)]]

\* the header sections a script appends: without a header row, or with one
HeadTheads ==
    { Thead(id, NoTr) : id \in 1 .. MaxTheads } \cup
    { Thead(id, HeaderRow(id, MaxHeaderCells)) : id \in 1 .. MaxTheads }

\* a script appends a header section to a connected table that has none
AppendTHead ==
    /\ connected
    /\ tHead.id = 0
    /\ tr_records = <<>>
    /\ Len(update_regions) < MaxQueue
    /\ \E head \in HeadTheads : tHead' = head
    /\ children_records' = TRUE
    /\ UNCHANGED <<schedVars, tBodies, connected, observed_thead, thead_observer, h_obs>>
    /\ UNCHANGED <<dataVars, rowVars, cellVars, srcVars>>

\* a script removes the header section of a connected table
DetachTHead ==
    /\ connected
    /\ tHead.id # 0
    /\ tr_records = <<>>
    /\ tHead' = NoThead
    /\ children_records' = TRUE
    /\ UNCHANGED <<schedVars, tBodies, connected, observed_thead, thead_observer, h_obs>>
    /\ UNCHANGED <<dataVars, rowVars, cellVars, srcVars>>

\* a mutation of the children of the header section queues a record when
\* thead_observer observes that header section
TheadRecord == thead_records \/ (thead_observer = tHead.id)

\* a script inserts a header row into a header section that has none
InsertTr ==
    /\ connected
    /\ tHead.id # 0 /\ tHead.tr.id = 0
    /\ Len(update_regions) < MaxQueue
    /\ \E id \in 1 .. MaxTheads, n \in {0, MaxHeaderCells} :
         tHead' = [tHead EXCEPT !.tr = HeaderRow(id, n)]
    /\ thead_records' = TheadRecord
    /\ UNCHANGED <<schedVars, tBodies, obsVars, dataVars>>
    /\ UNCHANGED <<observed_thead_tr, thead_tr_observer, tr_records, h_row, cellVars, srcVars>>

\* a script removes the header row
RemoveTr ==
    /\ connected
    /\ tHead.id # 0 /\ tHead.tr.id # 0
    /\ tr_records = <<>>
    /\ tHead' = [tHead EXCEPT !.tr = NoTr]
    /\ thead_records' = TheadRecord
    /\ UNCHANGED <<schedVars, tBodies, obsVars, dataVars>>
    /\ UNCHANGED <<observed_thead_tr, thead_tr_observer, tr_records, h_row, cellVars, srcVars>>

\* the record a change at position pos of the header row queues: its
\* previousSibling is the cell before that position
TrRecord(cells, pos) ==
    [prev |-> IF pos = 0 THEN NoSibling ELSE cells[pos].name]

\* a change of the children of the header row at position pos queues a
\* record when thead_tr_observer observes that row
QueueTrRecord(pos) ==
    IF thead_tr_observer = tHead.tr.id
    THEN /\ tr_records' = Append(tr_records, TrRecord(tHead.tr.cells, pos))
         /\ h_row' = [changed |-> TRUE, delivered |-> FALSE, start |-> 0, queued |-> FALSE,
                      first |-> IF h_row.changed THEN Min(h_row.first, pos) ELSE pos]
    ELSE UNCHANGED <<tr_records, h_row>>

\* a script inserts a header cell at position pos of the header row
InsertTh ==
    /\ connected
    /\ tHead.id # 0 /\ tHead.tr.id # 0
    /\ Len(tHead.tr.cells) < MaxHeaderCells
    /\ Len(tr_records) < MaxRecords
    /\ Len(update_regions) < MaxQueue
    /\ \E pos \in 0 .. Len(tHead.tr.cells) :
         LET cells == tHead.tr.cells
             free == { i \in DOMAIN HeaderNames :
                         \A j \in DOMAIN cells : cells[j].name # HeaderNames[i] }
             th == Th(NULL, HeaderNames[CHOOSE i \in free : \A j \in free : i <= j], NoAttr)
         IN  /\ tHead' = [tHead EXCEPT !.tr.cells =
                             SubSeq(cells, 1, pos) \o <<th>> \o SubSeq(cells, pos + 1, Len(cells))]
             /\ QueueTrRecord(pos)
    /\ UNCHANGED <<schedVars, tBodies, obsVars, dataVars>>
    /\ UNCHANGED <<observed_thead_tr, thead_tr_observer, thead_records, cellVars, srcVars>>

\* a script removes the header cell at position pos of the header row
RemoveTh ==
    /\ connected
    /\ tHead.id # 0 /\ tHead.tr.id # 0
    /\ Len(tr_records) < MaxRecords
    /\ Len(update_regions) < MaxQueue
    /\ \E pos \in 0 .. Len(tHead.tr.cells) - 1 :
         /\ tHead' = [tHead EXCEPT !.tr.cells = RemoveAt(@, pos + 1)]
         /\ QueueTrRecord(pos)
    /\ UNCHANGED <<schedVars, tBodies, obsVars, dataVars>>
    /\ UNCHANGED <<observed_thead_tr, thead_tr_observer, thead_records, cellVars, srcVars>>

\* a table without header section and without body, not yet connected
HeadInit ==
    /\ Constructed
    /\ Untracked
    /\ tBodies = <<>>
    /\ tHead = NoThead

HeadNext ==
    \/ ConnectedCallback \/ AppendTHead \/ DetachTHead \/ InsertTr \/ RemoveTr
    \/ InsertTh \/ RemoveTh
    \/ OnChildrenChanged \/ OnTheadChildrenChanged \/ OnTheadTrChildrenChanged
    \/ TableUpdate

SpecHead == HeadInit /\ [][HeadNext]_vars

----------------------------------------------------------------------------
(* The header cells' types: scripts set the type attribute of header cells *)
(* of a table written in markup (it has the attribute is="ren-table", so   *)
(* closest('table[is=ren-table]') finds it) and call update(); the passes  *)
(* and the cells' renders run.                                             *)

\* the columns whose header cell's type scripts set, and the types they set
TypeColumns == {0, WideRow - 1}
SetTypes == {"check"}

\* RenHeaderElement.on_type_changed(): the header cell at column index had
\* its type attribute set to type
on_type_changed(index, type) ==
    /\ tHead' = [tHead EXCEPT !.tr.cells[index + 1].type = type]
    /\ update(0, index, POSITIVE_INFINITY, index + 1)
    /\ h_type' = [changed |-> TRUE, column |-> index,
                  queued |-> \E i \in DOMAIN update_regions' :
                               update_regions'[i] =
                                 Entry(0, index, POSITIVE_INFINITY, index + 1)]

\* a script sets the type attribute of a header cell
TypeChanged ==
    /\ Len(update_regions) < MaxQueue
    /\ tHead.id # 0 /\ tHead.tr.id # 0
    /\ \E index \in TypeColumns, type \in SetTypes :
         /\ index < Len(tHead.tr.cells)
         /\ on_type_changed(index, type)
    /\ UNCHANGED <<td_update_handle, tBodies, obsVars, dataVars, rowVars, srcVars>>
    /\ UNCHANGED <<renderers, h_cell, h_render>>

TypeNext == Update \/ TypeChanged \/ TableUpdate \/ CellUpdate

SpecType == SchedInit /\ [][TypeNext]_vars

----------------------------------------------------------------------------
(* The body cells: scripts write the value and the max attribute of body   *)
(* cells and call update() on the table; the passes and the cells' renders *)
(* run.  One cell, chosen at the start, has its writes and renders counted. *)

\* the most writes to the value of a cell before its render runs
MaxWrites == 2

\* the values scripts write to the value attribute, and to the max attribute
CellValues == { <<"3", "0">>, <<"a">> }
MaxValues == { <<"2", "0", "0">> }

\* RenCellElement.attributeChangedCallback after the value attribute of the
\* cell at <<row, col>> was set to v: this.update()
set_value(cell, v) ==
    LET td == Rows(tBodies)[cell[1] + 1].cells[cell[2] + 1]
        req == RequestCells(<<cell>>, td_update_handle, timers)
    IN  /\ tBodies' = SetCell(tBodies, cell[1], cell[2], [td EXCEPT !.value = Attr(v)])
        /\ timers' = req.timers
        /\ td_update_handle' = req.handles

\* a script writes the value of a body cell
WriteValue ==
    /\ \E cell \in Cells(tBodies), v \in CellValues :
         /\ cell = h_cell.cell => h_cell.writes < MaxWrites
         /\ set_value(cell, v)
         /\ h_cell' = IF cell # h_cell.cell THEN h_cell
                      ELSE IF cell \in td_update_handle
                           THEN [h_cell EXCEPT !.writes = @ + 1]
                           ELSE [h_cell EXCEPT !.writes = 1, !.renders = 0]
    /\ h_pass' = NoPass
    /\ UNCHANGED <<update_regions, update_handle, h_calls, tHead>>
    /\ UNCHANGED <<obsVars, dataVars, rowVars, srcVars, renderers, h_type, h_render>>

\* a script sets the max attribute of a body cell: max is not among the
\* observedAttributes, so no callback runs
WriteMax ==
    /\ \E cell \in Cells(tBodies), m \in MaxValues :
         LET td == Rows(tBodies)[cell[1] + 1].cells[cell[2] + 1] IN
         /\ td.max # Attr(m)
         /\ tBodies' = SetCell(tBodies, cell[1], cell[2], [td EXCEPT !.max = Attr(m)])
         /\ h_cell' = IF cell = h_cell.cell THEN [h_cell EXCEPT !.maxed = TRUE] ELSE h_cell
    /\ UNCHANGED <<schedVars, tHead, obsVars, dataVars, rowVars, srcVars>>
    /\ UNCHANGED <<renderers, h_type, h_render>>

\* a script calls update() without arguments
UpdateAll ==
    /\ Len(update_regions) < MaxQueue
    /\ update(0, 0, POSITIVE_INFINITY, POSITIVE_INFINITY)
    /\ UNCHANGED <<td_update_handle, domVars, obsVars, dataVars, rowVars, cellVars, srcVars>>

\* a header row with a text column and a progress column whose max is 50
CellHead ==
    Thead(1, [id |-> 1, cells |-> << Th(NULL, "title", NoAttr),
                                      Th("progress", NULL, Attr(<<"5", "0">>)) >>])

\* one body row with a cell for each column, nothing written yet; the cell
\* whose writes and renders are counted is any of them
CellInit ==
    /\ Constructed
    /\ tHead = CellHead
    /\ tBodies = << << Row(<<Cell(NoAttr), Cell(NoAttr)>>, 0) >> >>
    /\ h_cell \in { [NoTracking EXCEPT !.cell = cell] : cell \in Cells(tBodies) }

CellNext == WriteValue \/ WriteMax \/ UpdateAll \/ TableUpdate \/ CellUpdate

SpecCell == CellInit /\ [][CellNext]_vars

----------------------------------------------------------------------------
(* The renderer registry: scripts remove renderers and write the value of  *)
(* the cell of a one-column table whose header cell has a built-in type, a *)
(* type that was never registered, or a type whose name every object       *)
(* inherits; the cell's renders run.                                       *)

\* the types of the header cell
RenderTypes == {"text", "check", "custom", "toString", "valueOf"}

\* the renderers scripts remove
RemovedRenderers == {"text", "check"}

\* remove_renderer(name): delete RenTableElement.renderers[name]
remove_renderer(name) == renderers' = renderers \ {name}

\* a script removes a registered renderer
RemoveRenderer ==
    /\ \E name \in RemovedRenderers \cap renderers : remove_renderer(name)
    /\ UNCHANGED <<schedVars, domVars, obsVars, dataVars, rowVars, srcVars>>
    /\ UNCHANGED <<h_type, h_cell, h_render>>

\* one header cell of any of the types, one body cell, which is counted
RenderInit ==
    /\ Constructed
    /\ \E type \in RenderTypes :
         tHead = Thead(1, [id |-> 1, cells |-> << Th(type, NULL, NoAttr) >>])
    /\ tBodies = << << Row(<<Cell(NoAttr)>>, 0) >> >>
    /\ h_cell = [NoTracking EXCEPT !.cell = <<0, 0>>]

RenderNext == RemoveRenderer \/ WriteValue \/ CellUpdate

SpecRender == RenderInit /\ [][RenderNext]_vars

----------------------------------------------------------------------------
(* The src attribute: scripts set src, the fetches complete in any order   *)
(* with an OK response, a non-OK response or a network failure, and the    *)
(* renders the imported cells ask for run.                                 *)

\* the most fetches issued
MaxFetches == 2

\* the values scripts set src to: the empty string and two URLs
SrcValues == {"", "A", "B"}

\* the JSON the server returns for each URL
SrcData(url) ==
    IF url = "A" THEN << ArrayRow(<<Str(<<"a">>)>>) >>
    ELSE << ArrayRow(<<Str(<<"b">>)>>), ArrayRow(<<Str(<<"c">>)>>) >>

\* the ways a fetch completes
Outcomes == {"ok", "not ok", "failed"}

\* a mutant of ResponseOk: the status of the response is not tested
ResponseAccepted(outcome) == outcome # "failed"

\* the fetch resolved and res.ok holds: the handler goes on to from()
ResponseOk(outcome) == outcome = "ok"

\* on_src_changed(old_value, new_value) up to its first await: a fetch of
\* this.src is issued when new_value is not empty
on_src_changed(new_value) ==
    /\ fetches' = IF new_value # ""
                  THEN Append(fetches, [url |-> new_value, state |-> "pending"])
                  ELSE fetches
    /\ h_src' = [h_src EXCEPT !.set = TRUE, !.value = new_value,
                              !.issued = Len(fetches') - Len(fetches)]

\* a script sets the src attribute
SetSrc ==
    /\ Len(fetches) < MaxFetches
    /\ \E new_value \in SrcValues : on_src_changed(new_value)
    /\ UNCHANGED <<schedVars, domVars, obsVars, dataVars, rowVars, cellVars>>

\* on_src_changed() resumed when its fetch completes: it throws on a failed
\* fetch and on a response that is not OK, else it calls from() with the JSON
Respond ==
    /\ \E i \in DOMAIN fetches, outcome \in Outcomes :
         /\ fetches[i].state = "pending"
         /\ fetches' = [fetches EXCEPT ![i].state = outcome]
         /\ IF ResponseOk(outcome)
            THEN from(SrcData(fetches[i].url))
            ELSE /\ h_from' = NoFrom
                 /\ UNCHANGED <<tBodies, timers, td_update_handle, children_records>>
         /\ h_src' = [h_src EXCEPT
                         !.responded = TRUE, !.ok = (outcome = "ok"),
                         !.status = outcome,
                         !.kept = (tBodies' = tBodies),
                         !.error = CASE outcome = "not ok" -> "http status"
                                     [] outcome = "failed" -> "fetch rejected"
                                     [] OTHER -> "none"]
    /\ UNCHANGED <<update_regions, update_handle, h_calls, h_pass, tHead>>
    /\ UNCHANGED <<connected, observed_thead, thead_observer, h_obs>>
    /\ UNCHANGED <<exported, h_clear, rowVars, cellVars>>

\* a header row with one text column
SrcHead == Thead(1, [id |-> 1, cells |-> << Th(NULL, "title", NoAttr) >>])

\* a table with that header row and no body row or one, not connected
SrcInit ==
    /\ Constructed
    /\ Untracked
    /\ tHead = SrcHead
    /\ tBodies \in { <<>>, << << Row(<<Cell(Attr(<<"x">>))>>, 0) >> >> }

SrcNext == SetSrc \/ Respond \/ CellUpdate \/ DetachedCellUpdate

SpecSrc == SrcInit /\ [][SrcNext]_vars

----------------------------------------------------------------------------
(* Convergence: a table with a header row of two text columns and one     *)
(* rendered body cell; scripts write the cell's value, set header cells'   *)
(* types and insert and remove header cells; the header row observer's     *)
(* callback, the passes and the cell's renders run.                        *)

\* the body cell, showing the rendering of its value under the text type
ConvCell ==
    LET td == Cell(Attr(<<"a">>)) IN [td EXCEPT !.text = ValueText(td)]

\* a table written in markup, not yet connected
FromMarkup ==
    /\ connected = FALSE
    /\ observed_thead = 0 /\ thead_observer = 0
    /\ observed_thead_tr = 0 /\ thead_tr_observer = 0

\* a table built by a script that connected it, appended the header section
\* and then inserted the header row into it, each in a task of its own: the
\* callbacks have attached the observers to the header section and its row
BuiltInSteps ==
    /\ connected = TRUE
    /\ observed_thead = tHead.id /\ thead_observer = tHead.id
    /\ observed_thead_tr = tHead.tr.id /\ thead_tr_observer = tHead.tr.id

ConvInit ==
    /\ update_regions = <<>> /\ update_handle = NULL
    /\ timers = <<>> /\ td_update_handle = {}
    /\ children_records = FALSE /\ thead_records = FALSE /\ tr_records = <<>>
    /\ exported = NotExported /\ renderers = BuiltinRenderers /\ fetches = <<>>
    /\ h_calls = 0 /\ h_pass = NoPass /\ h_from = NoFrom /\ h_clear = NoClear
    /\ h_obs = NoDelivery /\ h_row = NoRowChange /\ h_type = NoTypeChange
    /\ h_render = NoRender /\ h_src = NoSrc
    /\ Untracked
    /\ tHead = Thead(1, HeaderRow(1, 2))
    /\ tBodies = << << Row(<<ConvCell>>, 0) >> >>
    /\ FromMarkup \/ BuiltInSteps

ConvNext ==
    \/ ConnectedCallback \/ InsertTh \/ RemoveTh \/ TypeChanged \/ WriteValue
    \/ OnTheadTrChildrenChanged \/ TableUpdate \/ CellUpdate

SpecConv == ConvInit /\ [][ConvNext]_vars

----------------------------------------------------------------------------
(* Type resolution: a table whose header row has one column, with a type   *)
(* attribute or without one, and one body row that is as wide as the       *)
(* header or one cell wider; scripts write the cells' values and call      *)
(* to_array(), the cells' renders run.  One cell, chosen at the start, has *)
(* its renders recorded.                                                   *)

\* the header rows: a check column, and a column without type attribute
WideHeads ==
    { Thead(1, [id |-> 1, cells |-> << Th("check", "done", NoAttr) >>]),
      Thead(1, [id |-> 1, cells |-> << Th(NULL, "title", NoAttr) >>]) }

\* the body rows: one cell under the header cell, with or without a second
\* cell beyond the header row
WideBodies ==
    { << << Row(<<Cell(NoAttr)>>, 0) >> >>,
      << << Row(<<Cell(NoAttr), Cell(NoAttr)>>, 0) >> >> }

WideInit ==
    /\ Constructed
    /\ tHead \in WideHeads
    /\ tBodies \in WideBodies
    /\ h_cell \in { [NoTracking EXCEPT !.cell = cell] : cell \in Cells(tBodies) }

WideNext == WriteValue \/ ToArray \/ CellUpdate

SpecWide == WideInit /\ [][WideNext]_vars

----------------------------------------------------------------------------
(* Properties of the scheduler.                                            *)

Range(seq) == { seq[i] : i \in DOMAIN seq }
Count(seq, x) == Cardinality({ i \in DOMAIN seq : seq[i] = x })

\* the deferred render passes waiting in the host's timer queue
PendingPasses == Cardinality({ i \in DOMAIN timers : timers[i].target = "table" })

\* cell <<r, c>> lies inside the rectangle of a region
InRegion(cell, region) ==
    /\ region.row_start <= cell[1] /\ cell[1] < region.row_end
    /\ region.column_start <= cell[2] /\ cell[2] < region.column_end

\* cell <<r, c>> lies inside at least one region of the queue
Covered(cell, queue) == \E i \in DOMAIN queue : InRegion(cell, queue[i])

(* C1: for any n >= 1 update() calls made before the deferred pass fires,  *)
(* exactly one pass is pending (the handle is set and one timeout waits),  *)
(* no pass is pending when no call was made since the last pass, and all n *)
(* regions are in the queue, so they are there when the pass starts.       *)
C1_OnePassPerBatch ==
    /\ PendingPasses <= 1
    /\ h_calls >= 1 => (PendingPasses = 1 /\ update_handle # NULL)
    /\ h_calls = 0 => (PendingPasses = 0 /\ update_handle = NULL)
    /\ Len(update_regions) = h_calls

\* a pass has run on a queue filled by two update() calls
C1_Witness == h_pass.ran /\ Len(h_pass.regions) >= 2

(* C2: the update queue is in ascending order of the composite key: of two *)
(* adjacent regions the earlier has a smaller row_start, or the same       *)
(* row_start and a column_start that is not greater.                       *)
C2_QueueAscending ==
    \A i \in 1 .. Len(update_regions) - 1 :
        \/ update_regions[i].row_start < update_regions[i + 1].row_start
        \/ /\ update_regions[i].row_start = update_regions[i + 1].row_start
           /\ update_regions[i].column_start <= update_regions[i + 1].column_start

(* C3: no region starves: after a pass, every body cell inside at least    *)
(* one region queued when the pass started had its render requested.       *)
C3_NoRegionStarves ==
    h_pass.ran =>
        \A cell \in Cells(tBodies) :
            Covered(cell, h_pass.regions) => cell \in Range(h_pass.requests)

(* C4: a pass touches only cells inside a queued rectangle: a cell whose   *)
(* render the pass requested lies inside a region queued at its start.     *)
C4_OnlyQueuedCells ==
    h_pass.ran =>
        \A cell \in Range(h_pass.requests) : Covered(cell, h_pass.regions)

\* two regions of the queue share a position of the row and column plane
Overlapping(queue) ==
    \E i, j \in DOMAIN queue :
        /\ i < j
        /\ queue[i].row_start < queue[j].row_end /\ queue[j].row_start < queue[i].row_end
        /\ queue[i].column_start < queue[j].column_end
        /\ queue[j].column_start < queue[i].column_end

(* C5: when update() was called several times with overlapping regions     *)
(* before the pass ran, the pass requests the render of each affected cell *)
(* exactly once, and once the cells' deferred renders have run each        *)
(* affected cell was rendered exactly once.                                *)
C5_ExactlyOneRender ==
    (h_pass.ran /\ Overlapping(h_pass.regions)) =>
        \A cell \in Cells(tBodies) :
            Covered(cell, h_pass.regions) =>
                /\ Count(h_pass.requests, cell) = 1
                /\ Count(h_pass.rendered, cell) <= 1
                /\ td_update_handle = {} => Count(h_pass.rendered, cell) = 1

(* C6: at the end of every render pass the update queue is empty, whatever *)
(* regions were queued and whatever rows the table has.                    *)
C6_QueueEmptyAfterPass == h_pass.ran => update_regions = <<>>

\* a pass has run with a queued region that starts beyond the last row
C6_Witness ==
    /\ h_pass.ran
    /\ \E i \in DOMAIN h_pass.regions :
         h_pass.regions[i].row_start >= Len(Rows(tBodies))

\* no cell is asked to render twice by one pass, nor rendered twice after it
AtMostOneRender ==
    \A cell \in Cells(tBodies) :
        /\ Count(h_pass.requests, cell) <= 1
        /\ Count(h_pass.rendered, cell) <= 1

\* every region of the queue has a weight not above that of its successor
QueueWeightSorted ==
    \A i \in 1 .. Len(update_regions) - 1 :
        Weight(update_regions[i].row_start, update_regions[i].column_start)
          <= Weight(update_regions[i + 1].row_start, update_regions[i + 1].column_start)

----------------------------------------------------------------------------
(* Properties of the data operations.                                      *)

(* C7: clear() removes all row-groups: after clear() returns, the table    *)
(* has no body row-group and its header section is the one it had.         *)
C7_ClearRemovesAll ==
    h_clear.called => (tBodies = <<>> /\ tHead = h_clear.head)

(* C8: from(rows) replaces all body content: after from(rows) on a table   *)
(* with a header row, the body rows are exactly one new row per input row, *)
(* in input order, and no row that was there before the call remains.      *)
C8_FromReplacesBody ==
    (h_from.called /\ ~h_from.threw) =>
        /\ Len(Rows(tBodies)) = Len(h_from.arr)
        /\ \A i \in 1 .. Len(Rows(tBodies)) : Rows(tBodies)[i].origin = i

\* the header's max of a progress column: its max attribute, else 100
HeaderMax(th) == IF th.max.has THEN StrToNumber(th.max.s) ELSE Num(100)

\* what the round trip promises for the value v imported at column idx: the
\* boolean truthiness for a check column, value/max for a progress column,
\* the raw imported string where no exporter is registered
ExpectedCell(head, v, idx) ==
    IF idx < Len(head.tr.cells) /\ ThType(head.tr.cells[idx + 1]) = "check"
    THEN Bool(ToBoolean(v))
    ELSE IF idx < Len(head.tr.cells) /\ ThType(head.tr.cells[idx + 1]) = "progress"
    THEN Divide(Coalesce(v, Num(0)), HeaderMax(head.tr.cells[idx + 1]))
    ELSE Str(JSString(Coalesce(v, Str(<<>>))))

ExpectedExport(head, arr) ==
    [i \in 1 .. Len(arr) |->
        [c \in 1 .. Len(arr[i].items) |-> ExpectedCell(head, arr[i].items[c], c - 1)]]

\* a dataset of array rows whose progress columns hold numbers or nothing
Importable(head, arr) ==
    \A i \in 1 .. Len(arr) :
        /\ arr[i].array
        /\ \A c \in 1 .. Len(arr[i].items) :
             (c <= Len(head.tr.cells) /\ ThType(head.tr.cells[c]) = "progress")
                => arr[i].items[c].k \in {"number", "null", "undefined"}

(* C9: round trip: to_array() called right after from(D), D a dataset of   *)
(* array rows, returns one row per row of D and per cell the exporter's    *)
(* result for the imported value (check: truthiness, progress: value/max), *)
(* or the raw imported string where no exporter is registered.             *)
C9_RoundTrip ==
    (h_from.called /\ ~h_from.threw /\ exported.done /\ Importable(tHead, h_from.arr)) =>
        (~exported.threw /\ exported.rows = ExpectedExport(tHead, h_from.arr))

----------------------------------------------------------------------------
(* Properties of the observation of the header section.                    *)

\* the last delivery found a header section where the one before found none
TheadAdded == h_obs.delivered /\ h_obs.seen = 0 /\ h_obs.now # 0

\* the last delivery found no header section where the one before found one
TheadRemoved == h_obs.delivered /\ h_obs.seen # 0 /\ h_obs.now = 0

(* C10: when the header section was added as a whole or removed as a       *)
(* whole, the handler that observes the mutation enqueues one full-table   *)
(* update (row_start 0, column_start 0, unbounded ends).                   *)
C10_AddOrRemoveEnqueues ==
    (TheadAdded \/ TheadRemoved) => (h_obs.enqueued = 1 /\ h_obs.full)

\* what on_children_changed does: an added header section enqueues one
\* full-table update, a removed one (no header section is left) enqueues none
AddEnqueuesRemoveDoesNot ==
    /\ TheadAdded => (h_obs.enqueued = 1 /\ h_obs.full)
    /\ TheadRemoved => h_obs.enqueued = 0

\* an added header section was observed and the full-table update is queued
TheadAddedObserved ==
    /\ TheadAdded
    /\ update_handle # NULL
    /\ Entry(0, 0, POSITIVE_INFINITY, POSITIVE_INFINITY) \in Range(update_regions)

----------------------------------------------------------------------------
(* Properties of the observation of the header row.                        *)

(* C11: when header cells were inserted into or removed from the observed  *)
(* header row, the update enqueued for the delivered batch covers all rows *)
(* and exactly the columns >= k, k the smallest position at which a header *)
(* cell was inserted or removed.                                           *)
C11_InvalidatesFromK ==
    h_row.delivered => (h_row.queued /\ h_row.start = h_row.first)

\* the enqueued update never starts after column k
InvalidatesAtLeastFromK ==
    h_row.delivered => (h_row.queued /\ h_row.start <= h_row.first)

(* C12: after any additions, removals and replacements of the header       *)
(* section and of the header row of a connected table, once the mutation   *)
(* callbacks are delivered, thead_observer observes the current header     *)
(* section and thead_tr_observer observes the current header row.          *)
C12_ObserversFollowHeader ==
    (connected /\ NoRecords) =>
        /\ thead_observer = tHead.id
        /\ tHead.tr.id # 0 => thead_tr_observer = tHead.tr.id

\* the header-section observer alone does follow the header section
TheadObserverFollows == (connected /\ NoRecords) => thead_observer = tHead.id

----------------------------------------------------------------------------
(* Properties of the header cells' types.                                  *)

\* the region a change of the type of the header cell at column i enqueues
ColumnRegion(i) == Entry(0, i, POSITIVE_INFINITY, i + 1)

\* the last pass ran on a queue that held the region of the last type change
TypePassRan ==
    /\ h_type.changed
    /\ h_pass.ran
    /\ \E k \in DOMAIN h_pass.regions : h_pass.regions[k] = ColumnRegion(h_type.column)

(* C13: when the type of the header cell at column i changes, the table    *)
(* enqueues the region rows [0, +inf) x columns [i, i+1); the resulting    *)
(* pass requests the render of every body cell of column i and, once the   *)
(* cells' renders have run, each was rendered; a pass on that region alone *)
(* requests the render of no cell of another column.                       *)
C13_TypeChangeRerendersColumn ==
    /\ h_type.changed => h_type.queued
    /\ TypePassRan =>
         \A cell \in Cells(tBodies) :
             /\ cell[2] = h_type.column =>
                  /\ \E k \in DOMAIN h_pass.requests : h_pass.requests[k] = cell
                  /\ td_update_handle = {} =>
                       \E k \in DOMAIN h_pass.rendered : h_pass.rendered[k] = cell
             /\ (h_pass.regions = <<ColumnRegion(h_type.column)>> /\ cell[2] # h_type.column) =>
                  \A k \in DOMAIN h_pass.requests : h_pass.requests[k] # cell

\* a type change that is alone in the queue re-renders exactly its column
TypeChangeAloneRerendersColumn ==
    (TypePassRan /\ h_pass.regions = <<ColumnRegion(h_type.column)>>) =>
        \A cell \in Cells(tBodies) :
            (cell[2] = h_type.column) <=>
                \E k \in DOMAIN h_pass.requests : h_pass.requests[k] = cell

----------------------------------------------------------------------------
(* Properties of the body cells.                                           *)

\* the deferred renders of a cell waiting in the host's timer queue
PendingRenders(cell) ==
    Cardinality({ i \in DOMAIN timers : timers[i] = CellTimer(cell[1], cell[2]) })

\* the counted cell, and what its render shows for its current attributes
Tracked == Rows(tBodies)[h_cell.cell[1] + 1].cells[h_cell.cell[2] + 1]
TrackedRendering == RenderCell(renderers, tHead, Tracked, h_cell.cell[2]).text

(* C14: each body cell has at most one deferred render pending, and has    *)
(* one exactly when its handle is set; k >= 1 writes to the value of a     *)
(* cell before its render fires, with any request of a table pass in the   *)
(* same interval, cause exactly one render, and that render used the value *)
(* last written.                                                           *)
C14_OneRenderPerCell ==
    /\ \A cell \in Cells(tBodies) :
         /\ PendingRenders(cell) <= 1
         /\ cell \in td_update_handle <=> PendingRenders(cell) = 1
    /\ h_cell.renders <= 1
    /\ (h_cell.writes >= 1 /\ h_cell.cell \in td_update_handle) => h_cell.renders = 0
    /\ (h_cell.writes >= 1 /\ h_cell.cell \notin td_update_handle) =>
         /\ h_cell.renders = 1
         /\ h_render.used = Tracked.value
         /\ ~h_cell.maxed => Tracked.text = TrackedRendering

\* two writes and a request of a pass were answered by one render
C14_Witness ==
    /\ h_cell.writes >= 2
    /\ h_cell.renders = 1
    /\ h_pass.ran
    /\ \E k \in DOMAIN h_pass.requests : h_pass.requests[k] = h_cell.cell
    /\ h_cell.cell \notin td_update_handle

(* C15: a change of the max attribute of a body cell, like a change of its *)
(* value, schedules a render of the cell: while a written max has not been *)
(* rendered, a render of the cell is pending.                              *)
C15_MaxChangeSchedulesRender ==
    h_cell.maxed => h_cell.cell \in td_update_handle

\* once no render is pending, a progress cell shows the percentage of its
\* current value and max
ProgressShowsCurrentMax ==
    (h_render.ran /\ td_update_handle = {} /\ h_cell.cell[2] = 1) =>
        Tracked.text = TrackedRendering

(* C16: rendering a body cell whose resolved type has no registered        *)
(* renderer never throws: the cell shows its raw value as plain text and a *)
(* warning is logged, for a type that was never registered and for a       *)
(* built-in type whose renderer was removed.                               *)
C16_UnregisteredTypeFallsBack ==
    (h_render.ran /\ ~h_render.registered) =>
        /\ h_render.outcome = "fallback"
        /\ h_render.warned
        /\ h_render.plain

\* the fallback is taken for every unregistered type whose name is not one
\* every object inherits
OwnNameFallsBack ==
    (h_render.ran /\ ~h_render.registered /\ CellType(tHead, 0) \notin ObjectPrototype) =>
        /\ h_render.outcome = "fallback"
        /\ h_render.warned
        /\ h_render.plain

----------------------------------------------------------------------------
(* Properties of the src attribute.                                        *)

(* C17: setting src to a non-empty value issues exactly one fetch and      *)
(* setting it to the empty value issues none; from() is called exactly     *)
(* when the fetch completes with an OK response; when it does not, the     *)
(* body rows are left as they were, and a non-OK response ends the handler *)
(* in the HTTP-status error.                                               *)
C17_FromOnlyOnOkResponse ==
    /\ h_src.set => h_src.issued = (IF h_src.value = "" THEN 0 ELSE 1)
    /\ h_src.responded =>
         /\ h_from.called <=> h_src.ok
         /\ h_src.ok => h_from.arr \in { SrcData(fetches[i].url) : i \in DOMAIN fetches }
         /\ ~h_src.ok => h_src.kept
         /\ h_src.status = "not ok" => h_src.error = "http status"

\* a non-OK response left the body that an earlier OK response imported
C17_Witness ==
    /\ h_src.responded /\ ~h_src.ok /\ h_src.error = "http status"
    /\ \E i \in DOMAIN fetches : fetches[i].state = "ok"
    /\ tBodies # <<>>

\* the value attributes of the body cells, row by row
BodyValues(bodies) ==
    [r \in 1 .. Len(Rows(bodies)) |->
        [c \in 1 .. Len(Rows(bodies)[r].cells) |-> Rows(bodies)[r].cells[c].value]]

(* C20: when src was set to one URL and then to another before the first   *)
(* response arrived, and both fetches succeeded, the body content is the   *)
(* data fetched from the URL set last, whatever the order of the responses. *)
C20_LastSrcWins ==
    (Len(fetches) >= 2 /\ \A i \in DOMAIN fetches : fetches[i].state = "ok") =>
        BodyValues(tBodies) =
            BodyValues(<<ImportBody(tHead, SrcData(fetches[Len(fetches)].url))>>)

----------------------------------------------------------------------------
(* The scheduler under structural changes of the table.                    *)

(* C18: between handler executions a render pass is pending exactly when   *)
(* the update queue is not empty: the handle is set and one table timeout  *)
(* waits if the queue holds a region, the handle is null and no table      *)
(* timeout waits if it holds none.                                         *)
C18_PassPendingIffQueued ==
    /\ (update_handle # NULL) <=> (update_regions # <<>>)
    /\ PendingPasses = (IF update_regions # <<>> THEN 1 ELSE 0)

\* observer callbacks have queued two regions since the last pass and one
\* pass is pending for them
C18_Witness ==
    /\ h_obs.delivered
    /\ Len(update_regions) >= 2
    /\ update_handle # NULL
    /\ PendingPasses = 1

----------------------------------------------------------------------------
(* Convergence of the display.                                             *)

\* every deferred callback has run: no observer record waits, no table pass
\* and no cell render is pending
Quiescent ==
    /\ NoRecords
    /\ timers = <<>>
    /\ update_handle = NULL
    /\ td_update_handle = {}

\* the body cell at <<row, col>> shows the rendering of its current value
\* under the type of the header cell now at its column index
Converged(cell) ==
    LET td == Rows(tBodies)[cell[1] + 1].cells[cell[2] + 1]
    IN  td.text = RenderCell(renderers, tHead, td, cell[2]).text

\* the column of the cell has a header cell
HasHeader(cell) ==
    tHead.id # 0 /\ tHead.tr.id # 0 /\ cell[2] < Len(tHead.tr.cells)

(* C19: once every deferred callback has run after value writes, type      *)
(* changes and header-cell insertions and removals, every body cell whose  *)
(* column has a header cell shows the rendering of its current value under *)
(* the type of the header cell at its column index.                        *)
C19_DisplayConverges ==
    Quiescent => \A cell \in Cells(tBodies) : HasHeader(cell) => Converged(cell)

\* the same when the header row observer observes the current header row
ObservedRowConverges ==
    (Quiescent /\ tHead.id # 0 /\ thead_tr_observer = tHead.tr.id) =>
        \A cell \in Cells(tBodies) : HasHeader(cell) => Converged(cell)

----------------------------------------------------------------------------
(* Totality of the type resolution.                                        *)

\* the type the cell at <<row, col>> is to resolve to: the type attribute of
\* the header cell at its column index, text when that header cell has no
\* type attribute or does not exist
ExpectedType(cell) ==
    IF HasHeader(cell) /\ tHead.tr.cells[cell[2] + 1].type # NULL
    THEN tHead.tr.cells[cell[2] + 1].type
    ELSE "text"

(* C21: the type of every body cell resolves, to the type attribute of the *)
(* header cell at its column index or to text when that header cell has no *)
(* type attribute or does not exist; so no render of a cell throws and     *)
(* to_array() does not throw.                                              *)
C21_TypeResolutionTotal ==
    /\ h_render.ran =>
         /\ h_render.outcome = "rendered"
         /\ CellType(tHead, h_cell.cell[2]) = ExpectedType(h_cell.cell)
    /\ exported.done =>
         /\ ~exported.threw
         /\ \A cell \in Cells(tBodies) : CellType(tHead, cell[2]) = ExpectedType(cell)

\* the same for the tables whose body cells all have a header cell
HeaderedCellsResolve ==
    /\ (h_render.ran /\ HasHeader(h_cell.cell)) =>
         /\ h_render.outcome = "rendered"
         /\ CellType(tHead, h_cell.cell[2]) = ExpectedType(h_cell.cell)
    /\ (exported.done /\ \A cell \in Cells(tBodies) : HasHeader(cell)) =>
         /\ ~exported.threw
         /\ \A cell \in Cells(tBodies) : CellType(tHead, cell[2]) = ExpectedType(cell)

\* a cell under a header cell without type attribute has rendered as text and
\* to_array() has returned the rows
HeaderedCellsResolved ==
    /\ h_render.ran /\ HasHeader(h_cell.cell)
    /\ tHead.tr.cells[h_cell.cell[2] + 1].type = NULL
    /\ exported.done /\ ~exported.threw

====
